---- MODULE Spec2Model ----
(***************************************************************************)
(* Person CRUD backend: request handler (PersonController), domain service *)
(* (PersonService), data access (PersonRepository / BaseRepository with    *)
(* the process-wide CacheManager) and the persons table.                   *)
(*                                                                         *)
(* Text values are sequences of one-character strings, so that trim,       *)
(* toLowerCase, includes and the regular expressions of the code are       *)
(* computed and not assumed.                                               *)
(*                                                                         *)
(* Every request is a process.  One action is one run of a handler from    *)
(* one awaited store statement to the next: the store statement itself     *)
(* together with the synchronous code that follows it (cache writes,       *)
(* validation, error translation, the response).                           *)
(***************************************************************************)
EXTENDS Integers, Sequences, FiniteSets, TLC

\* ------------------------------------------------------------------ bounds

\* AUTO_INCREMENT ids handed out by the table: 1..MaxId
MaxId == 2
\* number of clock advances explored
MaxTicks == 1
\* number of requests the server receives
MaxRequests == 3
\* number of executeInTransaction calls made
MaxCalls == 4
\* page numbers, page sizes and numbers of matching rows of the paginated queries
MaxPage == 4
MaxLimit == 4
MaxTotal == 9
\* Date.now() in the browser when the list has been loaded
Epoch == 1000

\* ------------------------------------------------------------------ text

LowerLetters ==
  << "a","b","c","d","e","f","g","h","i","j","k","l","m",
     "n","o","p","q","r","s","t","u","v","w","x","y","z" >>

UpperLetters ==
  << "A","B","C","D","E","F","G","H","I","J","K","L","M",
     "N","O","P","Q","R","S","T","U","V","W","X","Y","Z" >>

DigitChars == << "0","1","2","3","4","5","6","7","8","9" >>

\* collation order of the characters the model uses
Alphabet == << "\t", " ", "(", ")", "-", ".", "@" >> \o DigitChars \o LowerLetters

IndexOf(seq, c) == CHOOSE i \in DOMAIN seq : seq[i] = c

IsIn(seq, c) == \E i \in DOMAIN seq : seq[i] = c

ToLowerChar(c) == IF IsIn(UpperLetters, c) THEN LowerLetters[IndexOf(UpperLetters, c)] ELSE c

ToUpperChar(c) == IF IsIn(LowerLetters, c) THEN UpperLetters[IndexOf(LowerLetters, c)] ELSE c

\* String.prototype.toLowerCase
ToLowerCase(s) == [i \in DOMAIN s |-> ToLowerChar(s[i])]

\* String.prototype.toUpperCase
ToUpperCase(s) == [i \in DOMAIN s |-> ToUpperChar(s[i])]

\* \s of the regular expressions
IsSpace(c) == c \in { " ", "\t" }

RECURSIVE TrimStart(_)
TrimStart(s) == IF s # << >> /\ IsSpace(Head(s)) THEN TrimStart(Tail(s)) ELSE s

RECURSIVE TrimEnd(_)
TrimEnd(s) ==
  IF s # << >> /\ IsSpace(s[Len(s)]) THEN TrimEnd(SubSeq(s, 1, Len(s) - 1)) ELSE s

\* String.prototype.trim
Trim(s) == TrimEnd(TrimStart(s))

\* String.prototype.includes
Includes(s, sub) == \E i \in 0..(Len(s) - Len(sub)) : SubSeq(s, i + 1, i + Len(sub)) = sub

\* /^[^\s@]+@[^\s@]+\.[^\s@]+$/
EmailRegexTest(s) ==
  \E a \in DOMAIN s : \E d \in DOMAIN s :
    /\ s[a] = "@"
    /\ s[d] = "."
    /\ 1 < a /\ a + 1 < d /\ d < Len(s)
    /\ \A i \in DOMAIN s : ~IsSpace(s[i]) /\ (s[i] = "@" => i = a)

\* the phone as it is sent unchanged to the table
KeepsPhone(s) == s

\* phone.replace(/[\s\-\(\)]/g, '')
StripPhone(s) == SelectSeq(s, LAMBDA c : ~IsSpace(c) /\ c \notin {"-", "(", ")"})

CharRank(c) == IndexOf(Alphabet, ToLowerChar(c))

\* string comparison under the table's case-insensitive collation
RECURSIVE LexLess(_, _)
LexLess(s, t) ==
  IF t = << >> THEN FALSE
  ELSE IF s = << >> THEN TRUE
  ELSE IF CharRank(Head(s)) # CharRank(Head(t)) THEN CharRank(Head(s)) < CharRank(Head(t))
  ELSE LexLess(Tail(s), Tail(t))

\* equality of two strings under the table's case-insensitive collation
CollationEq(s, t) == ToLowerCase(s) = ToLowerCase(t)

\* ------------------------------------------------------------------ values

\* JavaScript null (a record, so that it compares with rows)
NULL == [isNull |-> TRUE]

\* 'admin@system.com'
AdminEmail == << "a","d","m","i","n","@","s","y","s","t","e","m",".","c","o","m" >>

\* '@temp.com'
TempDomain == << "@","t","e","m","p",".","c","o","m" >>

\* request bodies the clients send (before sanitizeInput)
BodyAl ==
  [ name    |-> << " ", "A", "l" >>,
    surname |-> << "B", "o" >>,
    email   |-> << "A", "@", "X", ".", "C", "O" >>,
    phone   |-> << "(", "5", ")", " ", "1", "-", "2" >>,
    address |-> << "q" >> ]

BodyAdmin ==
  [ name    |-> << "S", "y" >>,
    surname |-> << "O", "p" >>,
    email   |-> AdminEmail,
    phone   |-> << "7" >>,
    address |-> << "h" >> ]

BodyBad ==
  [ name    |-> << "B", "o" >>,
    surname |-> << "b", "o", " " >>,
    email   |-> << "b", "@", "x" >>,
    phone   |-> << >>,
    address |-> << "z" >> ]

Bodies == { BodyAl, BodyAdmin, BodyBad }

\* req.params.id as sent by the clients
PathParams == { << "0" >>, << "1" >>, << "2" >>, << "x" >> }

\* req.query of GET /api/persons: none, or ?q=Person:*
Queries == { << >>, << << "q", << "\"", "Person", ":", "*", "\"" >> >> >> }

\* ------------------------------------------------------------------ errors

Err(kind, code, message) == [kind |-> kind, code |-> code, message |-> message]

ValidationError(message) == Err("ValidationError", "VALIDATION_ERROR", message)

NotFoundError(resource, identifier) ==
  Err("NotFoundError", "NOT_FOUND",
      IF identifier # 0
        THEN << resource, "with ID", ToString(identifier), "not found" >>
        ELSE << resource, "not found" >>)

ConflictError(message, code) == Err("ConflictError", code, message)

ForbiddenError(message, code) == Err("ForbiddenError", code, message)

BusinessError(message, code) == Err("BusinessError", code, message)

\* error instanceof BusinessError
IsBusinessError(e) ==
  e.kind \in {"BusinessError", "ValidationError", "NotFoundError", "ConflictError", "ForbiddenError"}

\* a store call that fails for a technical reason (connection lost)
ConnectionError == Err("Error", "", << "connect ECONNREFUSED" >>)

\* ------------------------------------------------------------------ domain service, pure parts

\* a validation that finds no rule violated
AcceptsAll(data) == << >>

IsBlank(s) == s = << >> \/ Trim(s) = << >>

ValidateBusinessRules(data) ==
  (IF IsBlank(data.name) THEN << "Name is required for business operations" >> ELSE << >>)
  \o (IF IsBlank(data.surname) THEN << "Surname is required for business operations" >> ELSE << >>)
  \o (IF IsBlank(data.email) THEN << "Email is required for business operations" >>
      ELSE IF ~EmailRegexTest(data.email) THEN << "Email must be in valid format" >>
      ELSE << >>)
  \o (IF IsBlank(data.phone) THEN << "Phone is required for business operations" >> ELSE << >>)
  \o (IF IsBlank(data.address) THEN << "Address is required for business operations" >> ELSE << >>)
  \o (IF /\ data.name # << >>
         /\ data.surname # << >>
         /\ ToLowerCase(Trim(data.name)) = ToLowerCase(Trim(data.surname))
        THEN << "Name and surname cannot be identical" >> ELSE << >>)
  \o (IF data.email # << >> /\ Includes(data.email, TempDomain)
        THEN << "Temporary email domains are not allowed" >> ELSE << >>)

\* errors.join(sep): the entries with the separator between them
RECURSIVE Join(_, _)
Join(errors, sep) ==
  IF Len(errors) <= 1 THEN errors
  ELSE << Head(errors), sep >> \o Join(Tail(errors), sep)

\* `Business validation failed: ${errors.join(', ')}`
ValidationFailure(errors) ==
  ValidationError(<< "Business validation failed", ": " >> \o Join(errors, ", "))

\* { ...data, displayName: ..., phone: ..., ... }: every other field of data is kept
ApplyBusinessTransformations(data) ==
  LET set == [ displayName    |-> ToUpperCase(Trim(data.name) \o << " " >> \o Trim(data.surname)),
               phone          |-> StripPhone(data.phone),
               name           |-> Trim(data.name),
               surname        |-> Trim(data.surname),
               email          |-> ToLowerCase(Trim(data.email)),
               address        |-> Trim(data.address),
               businessStatus |-> "active" ]
  IN  [f \in DOMAIN data \cup DOMAIN set |-> IF f \in DOMAIN set THEN set[f] ELSE data[f]]

\* ------------------------------------------------------------------ request handler, pure parts

\* string values are trimmed, every other value (a numeric id) is copied
SanitizeInput(data) == [f \in DOMAIN data |-> IF f = "id" THEN data[f] ELSE Trim(data[f])]

IsDigit(c) == IsIn(DigitChars, c)

RECURSIVE DigitsValue(_, _)
DigitsValue(s, acc) ==
  IF s = << >> \/ ~IsDigit(Head(s)) THEN acc
  ELSE DigitsValue(Tail(s), 10 * acc + (IndexOf(DigitChars, Head(s)) - 1))

\* parseInt(id); isNaN(parsedId) ? null : parsedId
ValidateIdParameter(id) ==
  LET s == TrimStart(id)
      signed == s # << >> /\ Head(s) \in {"+", "-"}
      digits == IF signed THEN Tail(s) ELSE s
  IN  IF digits = << >> \/ ~IsDigit(Head(digits))
        THEN [isNull |-> TRUE, n |-> 0]
        ELSE [isNull |-> FALSE,
              n |-> IF signed /\ Head(s) = "-" THEN 0 - DigitsValue(digits, 0)
                    ELSE DigitsValue(digits, 0)]

\* !personId
IsFalsyId(v) == v.isNull \/ v.n = 0

Response(status, kind, code, message, data) ==
  [status |-> status, kind |-> kind, code |-> code, message |-> message, data |-> data]

SendSuccessResponse(message, data, statusCode) == Response(statusCode, "none", "", message, data)

SendErrorResponse(message, statusCode) == Response(statusCode, "none", "", message, NULL)

StatusMapCodes ==
  { "VALIDATION_ERROR", "DUPLICATE_EMAIL", "NOT_FOUND", "PERSON_NOT_FOUND",
    "SYSTEM_PERSON_PROTECTION", "FORBIDDEN", "CONFLICT", "CREATION_ERROR", "UPDATE_ERROR",
    "DELETE_ERROR", "RETRIEVAL_ERROR", "SEARCH_ERROR", "INCOMPLETE_PROFILES_ERROR",
    "STATISTICS_ERROR" }

GetHttpStatusForBusinessError(errorCode) ==
  IF errorCode \notin StatusMapCodes THEN 400
  ELSE IF errorCode = "VALIDATION_ERROR" THEN 400
  ELSE IF errorCode \in {"DUPLICATE_EMAIL", "CONFLICT"} THEN 409
  ELSE IF errorCode \in {"NOT_FOUND", "PERSON_NOT_FOUND"} THEN 404
  ELSE IF errorCode \in {"SYSTEM_PERSON_PROTECTION", "FORBIDDEN"} THEN 403
  ELSE 500

HandleBusinessError(error) ==
  IF error.kind = "ValidationError" THEN Response(400, error.kind, error.code, error.message, NULL)
  ELSE IF error.kind = "NotFoundError" THEN Response(404, error.kind, error.code, error.message, NULL)
  ELSE IF error.kind = "ConflictError" THEN Response(409, error.kind, error.code, error.message, NULL)
  ELSE IF error.kind = "ForbiddenError" THEN Response(403, error.kind, error.code, error.message, NULL)
  ELSE IF error.kind = "BusinessError"
    THEN Response(GetHttpStatusForBusinessError(error.code), error.kind, error.code, error.message, NULL)
  ELSE Response(500, error.kind, "", << "Internal server error" >>, NULL)

\* text.split(sep): the pieces of the text between the separators
RECURSIVE Split(_, _)
Split(text, sep) ==
  IF \A i \in 1 .. Len(text) : text[i] # sep THEN << text >>
  ELSE LET i == CHOOSE k \in 1 .. Len(text) :
                  text[k] = sep /\ \A m \in 1 .. (k - 1) : text[m] # sep
       IN  << SubSeq(text, 1, i - 1) >> \o Split(SubSeq(text, i + 1, Len(text)), sep)

\* the first entry of the list only
FirstEntryOnly(message) == << Split(Split(message, ": ")[2], ", ")[1] >>

\* the `errors` field of the 400 response:
\* message.includes(':') ? message.split(': ')[1]?.split(', ') : [message]
ErrorsField(message) ==
  IF \E i \in 1 .. Len(message) : message[i] = ": "
    THEN Split(Split(message, ": ")[2], ", ")
    ELSE << message >>

\* ------------------------------------------------------------------ cache manager

\* the order Array.prototype.sort gives the option names the model uses
ParamNames == << "id", "order", "q" >>

RECURSIVE InsertParam(_, _)
InsertParam(sorted, p) ==
  IF sorted = << >> THEN << p >>
  ELSE IF IndexOf(ParamNames, p[1]) < IndexOf(ParamNames, Head(sorted)[1])
    THEN << p >> \o sorted
  ELSE << Head(sorted) >> \o InsertParam(Tail(sorted), p)

RECURSIVE SortParams(_)
SortParams(params) ==
  IF params = << >> THEN << >> ELSE InsertParam(SortParams(Tail(params)), Head(params))

RECURSIVE Stringify(_)
Stringify(params) ==
  IF params = << >> THEN << >>
  ELSE << "\"", Head(params)[1], "\"", ":" >> \o Head(params)[2]
       \o (IF Tail(params) = << >> THEN << >> ELSE << "," >>) \o Stringify(Tail(params))

\* `${prefix}:${JSON.stringify(sortedParams)}`
GenerateKey(prefix, params) == prefix \o << ":", "{" >> \o Stringify(SortParams(params)) \o << "}" >>

\* an entry that CacheManager.get would return
CacheLive(c, key, t) == key \in DOMAIN c /\ ~(t > c[key].expiry)

\* a get for which an entry is expired from its expiry time on
CacheGetUntilExpiry(c, key, t) ==
  IF key \notin DOMAIN c THEN NULL
  ELSE IF t >= c[key].expiry THEN NULL
  ELSE c[key].value

\* CacheManager.get: the value, or null when absent or expired
CacheGet(c, key, t) ==
  IF key \notin DOMAIN c THEN NULL
  ELSE IF t > c[key].expiry THEN NULL
  ELSE c[key].value

\* CacheManager.get: an expired entry is deleted
CacheAfterGet(c, key, t) ==
  IF key \in DOMAIN c /\ t > c[key].expiry
    THEN [k \in DOMAIN c \ {key} |-> c[k]]
    ELSE c

CacheSet(c, key, value, ttl, t) ==
  [k \in DOMAIN c \cup {key} |-> IF k = key THEN [value |-> value, expiry |-> t + ttl] ELSE c[k]]

DeleteByPattern(c, pattern) ==
  [k \in {x \in DOMAIN c : ~Includes(x, pattern)} |-> c[k]]

\* ------------------------------------------------------------------ client, pure parts

\* the operations the user starts on the hook, each started once
Ops == { 1, 2 }

\* a Person of the list: the form's fields stand as one value
ListedPerson(id, data, isOptimistic) ==
  [id |-> id, data |-> data, isOptimistic |-> isOptimistic]

\* the list after fetchPersons
Loaded == << ListedPerson(1, "old", FALSE), ListedPerson(2, "old", FALSE) >>

\* the personData the user submits in operation k
PersonData(k) == << "by1", "by2" >>[k]

\* the id the server gives the record created by operation k
ServerId(k) == Len(Loaded) + k

NoOp == [kind |-> "", id |-> 0, personData |-> "", tempId |-> 0, kept |-> NULL]

\* persons.find(p => p.id === id), NULL for undefined
FindPerson(list, id) ==
  IF \E i \in DOMAIN list : list[i].id = id
    THEN list[CHOOSE i \in DOMAIN list :
                /\ list[i].id = id
                /\ \A j \in DOMAIN list : list[j].id = id => i <= j]
    ELSE NULL

\* prev.map(p => p.id === id ? replacement : p)
Replace(list, id, replacement) ==
  [i \in DOMAIN list |-> IF list[i].id = id THEN replacement ELSE list[i]]

\* prev.map(p => p.id === id ? { ...p, ...personData, isOptimistic: true } : p)
MarkOptimistic(list, id, data) ==
  [i \in DOMAIN list |->
     IF list[i].id = id THEN ListedPerson(list[i].id, data, TRUE) ELSE list[i]]

RECURSIVE Without(_, _)
\* prev.filter(p => p.id !== id)
Without(list, id) ==
  IF list = << >> THEN << >>
  ELSE IF Head(list).id = id THEN Without(Tail(list), id)
  ELSE << Head(list) >> \o Without(Tail(list), id)

\* the retries option the hook passes to api.execute
retries == 1

\* the statuses the server answers a call of the kind with, 0 when no answer comes
SuccessStatus(kind) == IF kind = "create" THEN 201 ELSE 200

FailureStatuses(kind) ==
  IF kind = "create" THEN { 0, 400, 409, 500 }
  ELSE IF kind = "update" THEN { 0, 400, 404, 409, 500 }
  ELSE { 0, 400, 404, 500 }

\* what the client's personService throws for a failed call: createPerson and
\* updatePerson throw error.response.data when there is one, deletePerson the
\* axios error itself; response is the status of err.response, 0 for undefined
ServiceThrows(kind, status) ==
  IF kind \in { "create", "update" } /\ status # 0
    THEN [isAxiosError |-> FALSE, response |-> 0]
    ELSE [isAxiosError |-> TRUE, response |-> status]

\* err.response && err.response.status >= 400 && err.response.status < 500
BreaksLoop(err) == err.response # 0 /\ err.response >= 400 /\ err.response < 500

\* the list after the operation's try block, given the answer's record
Confirmed(list, o, k) ==
  IF o.kind = "create" THEN Replace(list, o.tempId, ListedPerson(ServerId(k), o.personData, FALSE))
  ELSE IF o.kind = "update" THEN Replace(list, o.id, ListedPerson(o.id, o.personData, FALSE))
  ELSE list

\* the list after the operation's catch block
RolledBack(list, o) ==
  IF o.kind = "create" THEN Without(list, o.tempId)
  ELSE IF o.kind = "update" THEN Replace(list, o.id, o.kept)
  ELSE << o.kept >> \o list

\* ------------------------------------------------------------------ state

VARIABLES
  db,      \* the persons table: id -> row, or NULL where no row has that id
  nextId,  \* the table's AUTO_INCREMENT counter
  cache,   \* CacheManager.cache: key -> [value, expiry]
  now,     \* Date.now()
  pc,      \* per request: the awaited statement it is suspended at
  req,     \* per request: what the client sent
  resp,    \* per request: the response written to res
  served,  \* number of requests received so far
  call,    \* the function application under study: its name, arguments and result
  transaction,  \* UnitOfWork.transaction: the number of a transaction, 0 for null
  txns,    \* the transactions the store has begun: state and calls received
  upc,     \* per executeInTransaction call: the awaited statement it is suspended at
  own,     \* per call: the transaction its beginTransaction began, 0 for none
  target,  \* per call: the transaction its pending commit or rollback acts on
  outcome, \* per call: the error caught so far, then how the call ended
  settled, \* per call: how operation(this) settled
  repositories, \* UnitOfWork.repositories.person: the transaction injected into it
  calls,   \* number of executeInTransaction calls made so far
  persons, \* usePersons: the persons list held in the hook's state
  cpc,     \* per client operation: the awaited statement it is suspended at
  cop,     \* per client operation: its kind, arguments and locals
  attempt, \* per client operation: the attempt counter of api.execute
  answers, \* per client operation: the status of every answer it received, 0 for none
  ended,   \* per client operation: how it ended
  clientNow \* Date.now() in the browser

\* the state of request handling
serving == << db, nextId, cache, now, pc, req, resp, served >>

\* the state of one UnitOfWork instance
unitOfWork == << transaction, txns, upc, own, target, outcome, settled, repositories, calls >>

\* the state that request handling never touches
\* the state of the client's usePersons hook
client == << persons, cpc, cop, attempt, answers, ended, clientNow >>

apart == << call, unitOfWork, client >>

vars == << serving, apart >>

\* no function has been applied yet
NoCall == [fn |-> "none"]

\* requests the server handles at one time
Requests == {1, 2}

\* executeInTransaction calls on the UnitOfWork instance that run at one time
Callers == {1, 2}

\* BaseRepository.cacheTTL
cacheTTL == 300000

\* one clock advance, in milliseconds
TickMs == 400000

Ids == 1..MaxId

NoReq == [op |-> "none", id |-> << >>, body |-> NULL, query |-> << >>]

NoResp == Response(0, "none", "", << >>, NULL)

\* ------------------------------------------------------------------ the table

Row(id, data) ==
  [ id |-> id, name |-> data.name, surname |-> data.surname, email |-> data.email,
    address |-> data.address, phone |-> data.phone ]

\* Model.create(values): the id of the inserted row is values.id when the values
\* hold one, and the table's AUTO_INCREMENT counter otherwise
InsertedId(values, autoIncrement) ==
  IF "id" \in DOMAIN values THEN values.id ELSE autoIncrement

\* Model.update(values, { where: { id } }): id is a column like any other, the
\* row's id becomes values.id when the values hold one
UpdatedId(values, id) ==
  IF "id" \in DOMAIN values THEN values.id ELSE id

\* a lookup that finds no row
FindsNoRow(d, id) == NULL

\* Model.findByPk
FindByPk(d, id) == IF id \in DOMAIN d THEN d[id] ELSE NULL

\* Model.count({ where: { email, id: { [Op.ne]: excludeId } } }); excludeId 0 is "none given"
CountByEmail(d, email, excludeId) ==
  Cardinality({ i \in DOMAIN d :
    d[i] # NULL /\ CollationEq(d[i].email, email) /\ (excludeId # 0 => i # excludeId) })

\* a table whose email column carries no UNIQUE constraint
NoUniqueConstraint(d, email, selfId) == FALSE

\* the UNIQUE constraint on persons.email: another row holds this email
UniqueViolation(d, email, selfId) ==
  \E i \in DOMAIN d : i # selfId /\ d[i] # NULL /\ CollationEq(d[i].email, email)

RowLess(a, b) ==
  \/ LexLess(a.name, b.name)
  \/ /\ CollationEq(a.name, b.name)
     /\ \/ LexLess(a.surname, b.surname)
        \/ CollationEq(a.surname, b.surname) /\ a.id < b.id

\* Model.findAll({ order: [['name','ASC'],['surname','ASC']] })
FindAllRows(d) ==
  LET present == { i \in DOMAIN d : d[i] # NULL }
      n == Cardinality(present)
      order == CHOOSE f \in [1..n -> present] :
                 \A i, j \in 1..n : i < j => RowLess(d[f[i]], d[f[j]])
  IN  [i \in 1..n |-> d[order[i]]]

\* ------------------------------------------------------------------ repository, pure parts

ModelName == "Person"

FindByIdKey(id) ==
  GenerateKey(<< ModelName, ":", "findById" >>, << << "id", << ToString(id) >> >> >>)

\* PersonRepository.findAll: { order: [...], ...options }
FindAllKey(query) ==
  GenerateKey(<< ModelName, ":", "findAll" >>,
              << << "order", << "[[", "name", "ASC", "],[", "surname", "ASC", "]]" >> >> >> \o query)

\* cacheManager.deleteByPattern(`${this.model.name}:*`)
InvalidateCache(c) == DeleteByPattern(c, << ModelName, ":", "*" >>)

\* PersonRepository.handleUniqueConstraintError
DuplicateEmailError == Err("Error", "DUPLICATE_EMAIL", << "Email already exists" >>)

\* ------------------------------------------------------------------ service, error translation

\* `${prefix}: ${error.message}` with the operation's code
Wrap(prefix, error, code) == BusinessError(<< prefix >> \o error.message, code)

\* catch of createPerson
CreateFailure(error) ==
  IF IsBusinessError(error) THEN error ELSE Wrap("Failed to create person", error, "CREATION_ERROR")

\* catch of updatePerson
UpdateFailure(error) ==
  IF IsBusinessError(error) THEN error ELSE Wrap("Failed to update person", error, "UPDATE_ERROR")

\* catch of deletePerson
DeleteFailure(error) ==
  IF IsBusinessError(error) THEN error ELSE Wrap("Failed to delete person", error, "DELETE_ERROR")

\* catch of getPersonById
RetrieveFailure(error) ==
  IF error.kind = "NotFoundError" THEN error
  ELSE Wrap("Failed to retrieve person", error, "RETRIEVAL_ERROR")

\* catch of checkEmailUniqueness
EmailCheckFailure(error) ==
  IF IsBusinessError(error) THEN error
  ELSE BusinessError(<< "Unable to verify email uniqueness" >>, "EMAIL_CHECK_ERROR")

UpdateFailed == BusinessError(<< "Person update failed" >>, "UPDATE_FAILED")

DuplicateEmailConflict == ConflictError(<< "Email address must be unique" >>, "DUPLICATE_EMAIL")

\* ------------------------------------------------------------------ the synchronous runs between awaits

Out(p, response, c) == [pc |-> p, resp |-> response, cache |-> c]

Fail(error, c) == Out("done", HandleBusinessError(error), c)

\* PersonRepository.update up to its first store statement
UpdateAfterCheck(id, c, t) ==
  LET key == FindByIdKey(id)
      originalPerson == CacheGet(c, key, t)
  IN  IF originalPerson # NULL
        THEN Out("update_update", NoResp, CacheAfterGet(c, key, t))
        ELSE Out("update_findByPk2", NoResp, CacheAfterGet(c, key, t))

\* updatePerson from the result of findById to its next store statement
UpdateAfterFind(id, data, existingPerson, c, t) ==
  IF existingPerson = NULL THEN Fail(UpdateFailure(NotFoundError("Person", id)), c)
  ELSE IF ValidateBusinessRules(data) # << >>
    THEN Fail(UpdateFailure(ValidationFailure(ValidateBusinessRules(data))), c)
  ELSE IF data.email # existingPerson.email THEN Out("update_count", NoResp, c)
  ELSE UpdateAfterCheck(id, c, t)

\* deletePerson from the result of findById to its next store statement
DeleteAfterFind(id, person, c) ==
  IF person = NULL THEN Fail(DeleteFailure(NotFoundError("Person", id)), c)
  ELSE IF person.email = AdminEmail
    THEN Fail(DeleteFailure(ForbiddenError(<< "System persons cannot be deleted" >>,
                                           "SYSTEM_PERSON_PROTECTION")), c)
  ELSE Out("delete_destroy", NoResp, c)

\* getPersonById from the result of findById
GetAfterFind(id, person, c) ==
  IF person = NULL THEN Fail(RetrieveFailure(NotFoundError("Person", id)), c)
  ELSE Out("done", SendSuccessResponse(<< >>, person, 200), c)

PathId(r) == ValidateIdParameter(req[r].id).n

Data(r) == SanitizeInput(req[r].body)

InvalidId == SendErrorResponse(<< "Invalid person ID format" >>, 400)

\* ------------------------------------------------------------------ actions

Init ==
  /\ db = [i \in Ids |-> NULL]
  /\ nextId = 1
  /\ cache = << >>
  /\ now = 0
  /\ pc = [r \in Requests |-> "idle"]
  /\ req = [r \in Requests |-> NoReq]
  /\ resp = [r \in Requests |-> NoResp]
  /\ served = 0
  /\ call = NoCall
  /\ transaction = 0
  /\ txns = << >>
  /\ upc = [c \in Callers |-> "idle"]
  /\ own = [c \in Callers |-> 0]
  /\ target = [c \in Callers |-> 0]
  /\ outcome = [c \in Callers |-> ""]
  /\ settled = [c \in Callers |-> ""]
  /\ repositories = << >>
  /\ calls = 0
  /\ persons = Loaded
  /\ cpc = [k \in Ops |-> "idle"]
  /\ cop = [k \in Ops |-> NoOp]
  /\ attempt = [k \in Ops |-> 0]
  /\ answers = [k \in Ops |-> << >>]
  /\ ended = [k \in Ops |-> ""]
  /\ clientNow = Epoch

Apply(r, out) ==
  /\ pc' = [pc EXCEPT ![r] = out.pc]
  /\ resp' = [resp EXCEPT ![r] = out.resp]
  /\ cache' = out.cache

Receive(r, op, id, body, query) ==
  /\ pc[r] = "idle"
  /\ served < MaxRequests
  /\ served' = served + 1
  /\ UNCHANGED apart
  /\ req' = [req EXCEPT ![r] = [op |-> op, id |-> id, body |-> body, query |-> query]]

\* GET /api/persons, up to Model.findAll
GetAllPersons(r) ==
  \E query \in Queries :
    /\ Receive(r, "getAll", << >>, NULL, query)
    /\ LET key == FindAllKey(query)
       IN  IF CacheLive(cache, key, now)   \* an array is truthy, also an empty one
             THEN Apply(r, Out("done",
                               SendSuccessResponse(<< >>, CacheGet(cache, key, now), 200),
                               cache))
             ELSE Apply(r, Out("all_findAll", NoResp, CacheAfterGet(cache, key, now)))
    /\ UNCHANGED << db, nextId, now >>

\* Model.findAll of BaseRepository.findAll, and the rest of the request
AllFindAll(r) ==
  /\ pc[r] = "all_findAll"
  /\ \E fault \in BOOLEAN :
       IF fault
         THEN Apply(r, Fail(Wrap("Failed to retrieve persons", ConnectionError, "RETRIEVAL_ERROR"),
                            cache))
         ELSE LET result == FindAllRows(db)
              IN  Apply(r, Out("done", SendSuccessResponse(<< >>, result, 200),
                               CacheSet(cache, FindAllKey(req[r].query), result, cacheTTL, now)))
  /\ UNCHANGED << db, nextId, now, req, served, apart >>

\* GET /api/persons/:id, up to Model.findByPk
GetPersonById(r) ==
  \E id \in PathParams :
    /\ Receive(r, "getById", id, NULL, << >>)
    /\ LET personId == ValidateIdParameter(id)
           key == FindByIdKey(personId.n)
           cached == CacheGet(cache, key, now)
       IN  IF IsFalsyId(personId) THEN Apply(r, Out("done", InvalidId, cache))
           ELSE IF cached # NULL
             THEN Apply(r, GetAfterFind(personId.n, cached, CacheAfterGet(cache, key, now)))
           ELSE Apply(r, Out("get_findByPk", NoResp, CacheAfterGet(cache, key, now)))
    /\ UNCHANGED << db, nextId, now >>

\* Model.findByPk of BaseRepository.findById, and the rest of getPersonById
GetFindByPk(r) ==
  /\ pc[r] = "get_findByPk"
  /\ \E fault \in BOOLEAN :
       IF fault THEN Apply(r, Fail(RetrieveFailure(ConnectionError), cache))
       ELSE LET result == FindByPk(db, PathId(r))
            IN  Apply(r, GetAfterFind(PathId(r), result,
                                      CacheSet(cache, FindByIdKey(PathId(r)), result, cacheTTL, now)))
  /\ UNCHANGED << db, nextId, now, req, served, apart >>

\* a create that goes to the uniqueness check without validating its input
CreatePersonUnvalidated(r) ==
  \E body \in Bodies :
    /\ Receive(r, "create", << >>, body, << >>)
    /\ Apply(r, Out("create_count", NoResp, cache))
    /\ UNCHANGED << db, nextId, now >>

\* POST /api/persons, up to the count of emailExists
CreatePerson(r) ==
  \E body \in Bodies :
    /\ Receive(r, "create", << >>, body, << >>)
    /\ LET errors == ValidateBusinessRules(SanitizeInput(body))
       IN  IF errors # << >>
             THEN Apply(r, Fail(ValidationFailure(errors), cache))
             ELSE Apply(r, Out("create_count", NoResp, cache))
    /\ UNCHANGED << db, nextId, now >>

\* Model.count of checkEmailUniqueness(personData.email)
CreateCount(r) ==
  /\ pc[r] = "create_count"
  /\ \E fault \in BOOLEAN :
       IF fault THEN Apply(r, Fail(CreateFailure(EmailCheckFailure(ConnectionError)), cache))
       ELSE IF CountByEmail(db, Data(r).email, 0) > 0
         THEN Apply(r, Fail(CreateFailure(EmailCheckFailure(DuplicateEmailConflict)), cache))
       ELSE Apply(r, Out("create_insert", NoResp, cache))
  /\ UNCHANGED << db, nextId, now, req, served, apart >>

\* Model.create of BaseRepository.create, and the rest of createPerson
CreateInsert(r) ==
  /\ pc[r] = "create_insert"
  /\ LET transformedData == ApplyBusinessTransformations(Data(r))
         id == InsertedId(transformedData, nextId)
     IN  \E fault \in BOOLEAN :
           IF fault
             THEN /\ Apply(r, Fail(CreateFailure(ConnectionError), cache))
                  /\ UNCHANGED << db, nextId >>
           ELSE IF UniqueViolation(db, transformedData.email, 0) \/ FindByPk(db, id) # NULL
             THEN /\ Apply(r, Fail(CreateFailure(DuplicateEmailError), cache))
                  /\ UNCHANGED << db, nextId >>
           ELSE /\ id \in Ids
                /\ db' = [db EXCEPT ![id] = Row(id, transformedData)]
                /\ nextId' = IF id < nextId THEN nextId ELSE id + 1
                /\ Apply(r, Out("done",
                                SendSuccessResponse(<< "Person created successfully" >>,
                                                    Row(id, transformedData), 201),
                                InvalidateCache(cache)))
  /\ UNCHANGED << now, req, served, apart >>

\* PUT /api/persons/:id, up to the first store statement
UpdatePerson(r) ==
  \E id \in PathParams, body \in Bodies :
    /\ Receive(r, "update", id, body, << >>)
    /\ LET personId == ValidateIdParameter(id)
           key == FindByIdKey(personId.n)
           cached == CacheGet(cache, key, now)
       IN  IF IsFalsyId(personId) THEN Apply(r, Out("done", InvalidId, cache))
           ELSE IF cached # NULL
             THEN Apply(r, UpdateAfterFind(personId.n, SanitizeInput(body), cached,
                                           CacheAfterGet(cache, key, now), now))
           ELSE Apply(r, Out("update_findByPk", NoResp, CacheAfterGet(cache, key, now)))
    /\ UNCHANGED << db, nextId, now >>

\* Model.findByPk of the findById in updatePerson
UpdateFindByPk(r) ==
  /\ pc[r] = "update_findByPk"
  /\ \E fault \in BOOLEAN :
       IF fault THEN Apply(r, Fail(UpdateFailure(ConnectionError), cache))
       ELSE LET result == FindByPk(db, PathId(r))
            IN  Apply(r, UpdateAfterFind(PathId(r), Data(r), result,
                           CacheSet(cache, FindByIdKey(PathId(r)), result, cacheTTL, now), now))
  /\ UNCHANGED << db, nextId, now, req, served, apart >>

\* Model.count of checkEmailUniqueness(personData.email, id)
UpdateCount(r) ==
  /\ pc[r] = "update_count"
  /\ \E fault \in BOOLEAN :
       IF fault THEN Apply(r, Fail(UpdateFailure(EmailCheckFailure(ConnectionError)), cache))
       ELSE IF CountByEmail(db, Data(r).email, PathId(r)) > 0
         THEN Apply(r, Fail(UpdateFailure(EmailCheckFailure(DuplicateEmailConflict)), cache))
       ELSE Apply(r, UpdateAfterCheck(PathId(r), cache, now))
  /\ UNCHANGED << db, nextId, now, req, served, apart >>

\* Model.findByPk of the findById in PersonRepository.update
UpdateFindByPk2(r) ==
  /\ pc[r] = "update_findByPk2"
  /\ \E fault \in BOOLEAN :
       IF fault THEN Apply(r, Fail(UpdateFailure(ConnectionError), cache))
       ELSE LET result == FindByPk(db, PathId(r))
                c == CacheSet(cache, FindByIdKey(PathId(r)), result, cacheTTL, now)
            IN  IF result = NULL
                  THEN Apply(r, Fail(UpdateFailure(UpdateFailed), c))
                  ELSE Apply(r, Out("update_update", NoResp, c))
  /\ UNCHANGED << db, nextId, now, req, served, apart >>

\* Model.update of BaseRepository.update
UpdateUpdate(r) ==
  /\ pc[r] = "update_update"
  /\ LET transformedData == ApplyBusinessTransformations(Data(r))
         id == PathId(r)
         newId == UpdatedId(transformedData, id)
     IN  \E fault \in BOOLEAN :
           IF fault
             THEN /\ Apply(r, Fail(UpdateFailure(ConnectionError), cache))
                  /\ UNCHANGED db
           ELSE IF FindByPk(db, id) = NULL   \* affectedRows === 0
             THEN /\ Apply(r, Fail(UpdateFailure(UpdateFailed), cache))
                  /\ UNCHANGED db
           ELSE IF \/ UniqueViolation(db, transformedData.email, id)
                   \/ newId # id /\ FindByPk(db, newId) # NULL
             THEN /\ Apply(r, Fail(UpdateFailure(DuplicateEmailError), cache))
                  /\ UNCHANGED db
           ELSE /\ newId \in Ids
                /\ db' = [i \in DOMAIN db |->
                            IF i = newId THEN Row(newId, transformedData)
                            ELSE IF i = id THEN NULL ELSE db[i]]
                /\ Apply(r, Out("update_reload", NoResp, cache))
  /\ UNCHANGED << nextId, now, req, served, apart >>

\* Model.findByPk after the update, and the rest of updatePerson
UpdateReload(r) ==
  /\ pc[r] = "update_reload"
  /\ \E fault \in BOOLEAN :
       IF fault THEN Apply(r, Fail(UpdateFailure(ConnectionError), cache))
       ELSE LET updatedRecord == FindByPk(db, PathId(r))
            IN  IF updatedRecord = NULL
                  THEN Apply(r, Fail(UpdateFailure(UpdateFailed), cache))
                  ELSE Apply(r, Out("done",
                                    SendSuccessResponse(<< "Person updated successfully" >>,
                                                        updatedRecord, 200),
                                    cache))
  /\ UNCHANGED << db, nextId, now, req, served, apart >>

\* DELETE /api/persons/:id, up to the first store statement
DeletePerson(r) ==
  \E id \in PathParams :
    /\ Receive(r, "delete", id, NULL, << >>)
    /\ LET personId == ValidateIdParameter(id)
           key == FindByIdKey(personId.n)
           cached == CacheGet(cache, key, now)
       IN  IF IsFalsyId(personId) THEN Apply(r, Out("done", InvalidId, cache))
           ELSE IF cached # NULL
             THEN Apply(r, DeleteAfterFind(personId.n, cached, CacheAfterGet(cache, key, now)))
           ELSE Apply(r, Out("delete_findByPk", NoResp, CacheAfterGet(cache, key, now)))
    /\ UNCHANGED << db, nextId, now >>

\* Model.findByPk of the findById in deletePerson
DeleteFindByPk(r) ==
  /\ pc[r] = "delete_findByPk"
  /\ \E fault \in BOOLEAN :
       IF fault THEN Apply(r, Fail(DeleteFailure(ConnectionError), cache))
       ELSE LET result == FindByPk(db, PathId(r))
            IN  Apply(r, DeleteAfterFind(PathId(r), result,
                           CacheSet(cache, FindByIdKey(PathId(r)), result, cacheTTL, now)))
  /\ UNCHANGED << db, nextId, now, req, served, apart >>

\* Model.destroy of BaseRepository.delete, and the rest of the request
DeleteDestroy(r) ==
  /\ pc[r] = "delete_destroy"
  /\ LET id == PathId(r)
     IN  \E fault \in BOOLEAN :
           IF fault
             THEN /\ Apply(r, Fail(DeleteFailure(ConnectionError), cache))
                  /\ UNCHANGED db
           ELSE IF FindByPk(db, id) = NULL   \* deletedRows === 0
             THEN /\ Apply(r, Out("done", SendErrorResponse(<< "Person not found" >>, 404), cache))
                  /\ UNCHANGED db
           ELSE /\ db' = [db EXCEPT ![id] = NULL]
                /\ Apply(r, Out("done",
                                SendSuccessResponse(<< "Person deleted successfully" >>, NULL, 200),
                                cache))
  /\ UNCHANGED << nextId, now, req, served, apart >>

\* the response has been sent; the connection serves its next request
Complete(r) ==
  /\ pc[r] = "done"
  /\ pc' = [pc EXCEPT ![r] = "idle"]
  /\ req' = [req EXCEPT ![r] = NoReq]
  /\ resp' = [resp EXCEPT ![r] = NoResp]
  /\ UNCHANGED << db, nextId, cache, now, served, apart >>

\* time passes
Tick ==
  /\ now < MaxTicks * TickMs
  /\ now' = now + TickMs
  /\ UNCHANGED << db, nextId, cache, pc, req, resp, served, apart >>

Step(r) ==
  \/ GetAllPersons(r)
  \/ AllFindAll(r)
  \/ GetPersonById(r)
  \/ GetFindByPk(r)
  \/ CreatePerson(r)
  \/ CreateCount(r)
  \/ CreateInsert(r)
  \/ UpdatePerson(r)
  \/ UpdateFindByPk(r)
  \/ UpdateCount(r)
  \/ UpdateFindByPk2(r)
  \/ UpdateUpdate(r)
  \/ UpdateReload(r)
  \/ DeletePerson(r)
  \/ DeleteFindByPk(r)
  \/ DeleteDestroy(r)
  \/ Complete(r)

Next == (\E r \in Requests : Step(r)) \/ Tick

Spec == Init /\ [][Next]_vars

\* one request at a time
SeqNext == Step(1) \/ Tick

SeqSpec == Init /\ [][SeqNext]_vars

\* the steps of a request that writes: POST, PUT or DELETE
WriteStep(r) ==
  \/ CreatePerson(r)
  \/ CreateCount(r)
  \/ CreateInsert(r)
  \/ UpdatePerson(r)
  \/ UpdateFindByPk(r)
  \/ UpdateCount(r)
  \/ UpdateFindByPk2(r)
  \/ UpdateUpdate(r)
  \/ UpdateReload(r)
  \/ DeletePerson(r)
  \/ DeleteFindByPk(r)
  \/ DeleteDestroy(r)
  \/ Complete(r)

WriteNext == (\E r \in Requests : WriteStep(r)) \/ Tick

\* createPerson, updatePerson and deletePerson calls in every interleaving
WriteSpec == Init /\ [][WriteNext]_vars

\* ------------------------------------------------------------------ properties

\* request r is answered in this step
Finishes(r) == pc[r] # "done" /\ pc'[r] = "done"

\* the id the handler passes to the service for request rq
IdOf(rq) == ValidateIdParameter(rq.id).n

\* the handler accepted the path parameter of request rq
HasId(rq) == ~IsFalsyId(ValidateIdParameter(rq.id))

\* the response reports a store call that failed for a technical reason
FaultCaused(response) ==
  \/ Includes(response.message, ConnectionError.message)
  \/ response.code = "EMAIL_CHECK_ERROR"

\* the key belongs to the entity's namespace: it starts with `${model.name}:`
InNamespace(key) ==
  Len(key) >= 2 /\ SubSeq(key, 1, 2) = << ModelName, ":" >>

\* C1: whenever GET /api/persons/:id is answered with a record while the table
\* holds a row with that id, the record returned is the table's row: a findById
\* after an update never returns the row as it was cached before the update.
C1_FindByIdReturnsPostUpdateRecord ==
  [][\A r \in Requests :
       ( /\ Finishes(r)
         /\ req'[r].op = "getById"
         /\ resp'[r].status = 200
         /\ FindByPk(db, IdOf(req'[r])) # NULL )
       => resp'[r].data = FindByPk(db, IdOf(req'[r]))]_vars

\* C2: whenever a create, update or delete request is answered with success, the
\* cache holds no entry whose key starts with the model name.
C2_WriteLeavesNoNamespaceEntry ==
  [][\A r \in Requests :
       ( /\ Finishes(r)
         /\ req'[r].op \in {"create", "update", "delete"}
         /\ resp'[r].status \in {200, 201} )
       => \A key \in DOMAIN cache' : ~InNamespace(key)]_vars

\* C3: in every reachable state no two rows of the table hold the same email
\* (compared as the table's collation compares, so also not the same email in
\* different case), under every interleaving of creates, updates and deletes.
C3_EmailUnique ==
  \A i, j \in DOMAIN db :
    (i # j /\ db[i] # NULL /\ db[j] # NULL) => ~CollationEq(db[i].email, db[j].email)

\* C3, its case: a write passed the service's uniqueness check and was then
\* rejected by the table's UNIQUE constraint, while another row holds the email.
C3_StoreRejectedDuplicate ==
  \E r \in Requests :
    /\ pc[r] = "done"
    /\ req[r].op \in {"create", "update"}
    /\ Includes(resp[r].message, DuplicateEmailError.message)
    /\ \E i \in DOMAIN db : db[i] # NULL /\ CollationEq(db[i].email, Data(r).email)

\* request r is a finished POST /api/persons whose input passed validation
ValidCreate(r) ==
  /\ pc[r] = "done"
  /\ req[r].op = "create"
  /\ ValidateBusinessRules(Data(r)) = << >>

\* C4: when the only two requests the server has received are creates with valid
\* input whose emails are equal ignoring case, and no store call failed for a
\* technical reason, then one of them is answered with the created record and
\* the other with a ConflictError, in every interleaving of their steps.
C4_OneCreatedOneConflict ==
  \A r1, r2 \in Requests :
    ( /\ r1 # r2
      /\ served = 2
      /\ ValidCreate(r1) /\ ValidCreate(r2)
      /\ CollationEq(Data(r1).email, Data(r2).email)
      /\ ~FaultCaused(resp[r1]) /\ ~FaultCaused(resp[r2]) )
    => \E w, l \in {r1, r2} :
         /\ w # l
         /\ resp[w].status = 201
         /\ resp[l].kind = "ConflictError"

\* the table rejects the write request r is about to make: the row it inserts or
\* updates would hold an email that another row holds
StoreRejects(r) ==
  LET email == ApplyBusinessTransformations(Data(r)).email
  IN  \/ pc[r] = "create_insert" /\ UniqueViolation(db, email, 0)
      \/ /\ pc[r] = "update_update"
         /\ FindByPk(db, IdOf(req[r])) # NULL
         /\ UniqueViolation(db, email, IdOf(req[r]))

\* C5: whenever the table rejects an insert or an update with a uniqueness
\* violation, the request is answered with a ConflictError and HTTP 409.
C5_StoreRejectionIsConflict ==
  [][\A r \in Requests :
       (StoreRejects(r) /\ Finishes(r) /\ ~FaultCaused(resp'[r]))
       => (resp'[r].kind = "ConflictError" /\ resp'[r].status = 409)]_vars

\* C6: whenever PUT /api/persons/:id is answered while the table holds no row
\* with that id (and no store call failed for a technical reason), the answer is
\* a NotFoundError, whatever the input and whatever requests came before.
C6_UpdateOfMissingIsNotFound ==
  [][\A r \in Requests :
       ( /\ Finishes(r)
         /\ req'[r].op = "update"
         /\ HasId(req'[r])
         /\ FindByPk(db, IdOf(req'[r])) = NULL
         /\ ~FaultCaused(resp'[r]) )
       => resp'[r].kind = "NotFoundError"]_vars

\* C7: whenever DELETE /api/persons/:id is answered while the row with that id
\* holds the email 'admin@system.com' (and no store call failed for a technical
\* reason), the answer is a ForbiddenError and the table is left as it was.
C7_ProtectedPersonIsNotDeleted ==
  [][\A r \in Requests :
       ( /\ Finishes(r)
         /\ req'[r].op = "delete"
         /\ HasId(req'[r])
         /\ FindByPk(db, IdOf(req'[r])) # NULL
         /\ FindByPk(db, IdOf(req'[r])).email = AdminEmail
         /\ ~FaultCaused(resp'[r]) )
       => (resp'[r].kind = "ForbiddenError" /\ db' = db)]_vars

\* C8: whenever DELETE /api/persons/:id, with an id the handler accepts, is
\* answered while the table holds no row with that id (and no store call failed
\* for a technical reason), the answer is 404, made from a NotFoundError whose
\* message contains the id.
C8_DeleteOfMissingIsNotFound ==
  [][\A r \in Requests :
       ( /\ Finishes(r)
         /\ req'[r].op = "delete"
         /\ HasId(req'[r])
         /\ FindByPk(db, IdOf(req'[r])) = NULL
         /\ ~FaultCaused(resp'[r]) )
       => ( /\ resp'[r].status = 404
            /\ resp'[r].kind = "NotFoundError"
            /\ Includes(resp'[r].message, << ToString(IdOf(req'[r])) >>) )]_vars

\* C9: once a row is deleted (ids are never handed out twice, so a missing row
\* that a read still returns is a deleted one), GET /api/persons/:id for its id
\* is answered with a NotFoundError and the list GET /api/persons returns holds
\* no record with its id, unless a store call failed for a technical reason.
C9_DeletedRecordIsGone ==
  [][\A r \in Requests :
       /\ ( /\ Finishes(r)
            /\ req'[r].op = "getById"
            /\ HasId(req'[r])
            /\ FindByPk(db, IdOf(req'[r])) = NULL
            /\ ~FaultCaused(resp'[r]) )
          => resp'[r].kind = "NotFoundError"
       /\ ( /\ Finishes(r)
            /\ req'[r].op = "getAll"
            /\ resp'[r].status = 200 )
          => \A i \in DOMAIN resp'[r].data : FindByPk(db, resp'[r].data[i].id) # NULL]_vars

\* the status the handler is to answer an error of this kind with
StatusOfKind(kind) ==
  CASE kind = "ValidationError" -> 400
    [] kind = "NotFoundError" -> 404
    [] kind = "ConflictError" -> 409
    [] kind = "ForbiddenError" -> 403
    [] OTHER -> 500

\* C10: every error a request is answered with has the status of its kind:
\* ValidationError 400, NotFoundError 404, ConflictError 409, ForbiddenError 403,
\* and 500 for every other error, generic business errors of any code included.
C10_ErrorStatusMapping ==
  \A r \in Requests :
    (pc[r] = "done" /\ resp[r].kind # "none") => resp[r].status = StatusOfKind(resp[r].kind)

\* ------------------------------------------------------------------ the router

\* path segments the clients send after /api/persons
SegSearch == << "s", "e", "a", "r", "c", "h" >>

SegIncomplete == << "i", "n", "c", "o", "m", "p", "l", "e", "t", "e" >>

\* a segment of a route's path: a literal, or a parameter such as :id
Lit(text) == [param |-> FALSE, text |-> text]

Param == [param |-> TRUE, text |-> << >>]

Route(method, path, handler) == [method |-> method, path |-> path, handler |-> handler]

\* the routes of the router, in the order they are registered
Routes ==
  << Route("GET", << >>, "getAllPersons"),
     Route("GET", << Param >>, "getPersonById"),
     Route("POST", << >>, "createPerson"),
     Route("PUT", << Param >>, "updatePerson"),
     Route("DELETE", << Param >>, "deletePerson"),
     Route("GET", << Lit(SegSearch) >>, "searchPersons"),
     Route("GET", << Lit(SegIncomplete) >>, "getIncompleteProfiles") >>

\* the route matches the request
Matches(route, method, path) ==
  /\ route.method = method
  /\ Len(route.path) = Len(path)
  /\ \A i \in DOMAIN path :
       IF route.path[i].param THEN path[i] # << >> ELSE route.path[i].text = path[i]

\* the handler of the first registered route that matches, "none" if none does
Dispatch(method, path) ==
  LET hits == { i \in DOMAIN Routes : Matches(Routes[i], method, path) }
  IN  IF hits = {} THEN "none"
      ELSE Routes[CHOOSE i \in hits : \A j \in hits : i <= j].handler

Methods == { "GET", "POST", "PUT", "DELETE" }

\* req.params.id texts, among them '12abc', '-1', ' 7', '1.5' and ''
IdTexts ==
  PathParams \cup
  { << "1", "2", "a", "b", "c" >>, << "-", "1" >>, << " ", "7" >>, << "1", ".", "5" >>,
    << "-" >>, << "+", "2" >>, << "a", "1" >>, << >>, SegSearch, SegIncomplete }

\* request paths below /api/persons
Paths == { << >> } \cup { << seg >> : seg \in IdTexts \ { << >> } } \cup { << << "1" >>, << "x" >> >> }

\* the router receives a request and picks its handler
Dispatches ==
  /\ \E method \in Methods, path \in Paths :
       call' = [ fn |-> "dispatch", method |-> method, path |-> path,
                 handler |-> Dispatch(method, path) ]
  /\ UNCHANGED << serving, unitOfWork, client >>

\* a handler of a /:id route validates its path parameter
ValidatesId ==
  /\ \E handler \in { "getPersonById", "updatePerson", "deletePerson" }, id \in IdTexts :
       call' = [ fn |-> "validateId", handler |-> handler, id |-> id,
                 personId |-> ValidateIdParameter(id),
                 rejected |-> IsFalsyId(ValidateIdParameter(id)) ]
  /\ UNCHANGED << serving, unitOfWork, client >>

\* C11: GET /api/persons/search is dispatched to the search handler and
\* GET /api/persons/incomplete to the incomplete-profiles handler, not to the
\* get-by-id handler.
C11_SearchAndIncompleteReachTheirHandlers ==
  (call.fn = "dispatch" /\ call.method = "GET")
  => /\ call.path = << SegSearch >> => call.handler = "searchPersons"
     /\ call.path = << SegIncomplete >> => call.handler = "getIncompleteProfiles"

\* the text is an integer: an optional sign and then digits only
IsInteger(id) ==
  LET digits == IF id # << >> /\ Head(id) \in {"+", "-"} THEN Tail(id) ELSE id
  IN  digits # << >> /\ \A i \in DOMAIN digits : IsDigit(digits[i])

\* C12: a handler of GET/PUT/DELETE /:id answers 400 without calling the domain
\* service exactly when the id path parameter is not an integer: every integer,
\* 0 included, reaches the service and no other text, such as '12abc', does.
C12_RejectsExactlyNonIntegers ==
  call.fn = "validateId" => (call.rejected <=> ~IsInteger(call.id))

\* ------------------------------------------------------------------ search

\* the service's cap on options.limit
MaxSearchLimit == 100

\* req.query.page and req.query.limit texts; << >> is a parameter not sent
PageTexts == { << >>, << "0" >>, << "1" >>, << "2" >>, << "x" >> }

LimitTexts ==
  { << >>, << "0" >>, << "1" >>, << "1", "0", "0" >>, << "1", "0", "1" >>,
    << "1", "0", "0", "0" >> }

\* numbers of rows of the table that the filters select
MatchingCounts == { 0, 1, 100, 101, 250 }

\* PersonController.searchPersons: if (page) options.page = parseInt(page)
ParseOption(text) ==
  IF text = << >> THEN [isNull |-> TRUE, n |-> 0] ELSE ValidateIdParameter(text)

\* PersonService.searchPersons: if (options.limit && options.limit > 100) options.limit = 100
CapLimit(limit) ==
  IF ~IsFalsyId(limit) /\ limit.n > MaxSearchLimit
    THEN [isNull |-> FALSE, n |-> MaxSearchLimit]
    ELSE limit

Min(a, b) == IF a < b THEN a ELSE b

Max(a, b) == IF a > b THEN a ELSE b

\* PersonRepository.searchPersons: how many records the result holds when the
\* where clause selects `matching` rows
SearchPersons(page, limit, matching) ==
  IF ~IsFalsyId(page) /\ ~IsFalsyId(limit)
    THEN LET offset == (page.n - 1) * limit.n
         IN  [ paginated |-> TRUE, returned |-> Min(limit.n, Max(0, matching - offset)) ]
    ELSE [ paginated |-> FALSE, returned |-> matching ]

\* PersonController.searchPersons, PersonService.searchPersons and the repository's query
SearchesPersons ==
  /\ \E page \in PageTexts, limit \in LimitTexts, matching \in MatchingCounts :
       call' = [ fn |-> "searchPersons", page |-> page, limit |-> limit, matching |-> matching,
                 result |-> SearchPersons(ParseOption(page), CapLimit(ParseOption(limit)),
                                          matching) ]
  /\ UNCHANGED << serving, unitOfWork, client >>

\* C13: a search result never holds more than 100 records, whatever limit the
\* client sends and whether or not it sends a page.
C13_SearchReturnsAtMostCap ==
  (call.fn = "searchPersons" /\ call.limit # << >>) => call.result.returned <= MaxSearchLimit

\* ------------------------------------------------------------------ pagination

\* Math.ceil(count / limit) for a count >= 0 and a limit >= 1
Ceil(count, limit) ==
  IF count % limit = 0 THEN count \div limit ELSE (count \div limit) + 1

\* Model.findAndCountAll({ where, order, limit, offset }) on the ordered rows the
\* where clause selects
FindAndCountAll(rows, limit, offset) ==
  [ count |-> Len(rows),
    rows |-> IF offset >= Len(rows) THEN << >>
             ELSE SubSeq(rows, offset + 1, Min(offset + limit, Len(rows))) ]

\* the page that starts one page too far
PaginateFromNextPage(page, limit, rows) ==
  LET found == FindAndCountAll(rows, limit, page * limit)
  IN  [ data |-> found.rows,
        pagination |-> [ page |-> page, limit |-> limit, total |-> found.count,
                         totalPages |-> Ceil(found.count, limit),
                         hasNext |-> page * limit < found.count,
                         hasPrev |-> page > 1 ] ]

\* BaseRepository.paginate, and the paginated branch of PersonRepository.searchPersons
Paginate(page, limit, rows) ==
  LET offset == (page - 1) * limit
      found == FindAndCountAll(rows, limit, offset)
  IN  [ data |-> found.rows,
        pagination |-> [ page |-> page, limit |-> limit, total |-> found.count,
                         totalPages |-> Ceil(found.count, limit),
                         hasNext |-> page * limit < found.count,
                         hasPrev |-> page > 1 ] ]

\* parseInt(options.page.toString()) || 1, parseInt(options.limit.toString()) || 10
ParsedOr(n, default) == IF n = 0 THEN default ELSE n

\* the ordered rows that the where clause selects, by their rank
OrderedRows(total) == [i \in 1 .. total |-> i]

\* paginate({ page, limit }) or searchPersons(criteria, { page, limit }) on a
\* table of which `total` rows match
Paginates ==
  /\ \E fn \in { "paginate", "searchPersonsPaginated" }, page \in 1 .. MaxPage, limit \in 1 .. MaxLimit,
        total \in 0 .. MaxTotal :
       call' = [ fn |-> fn, page |-> page, limit |-> limit, total |-> total,
                 result |-> IF fn = "paginate" THEN Paginate(page, limit, OrderedRows(total))
                            ELSE Paginate(ParsedOr(page, 1), ParsedOr(limit, 10),
                                          OrderedRows(total)) ]
  /\ UNCHANGED << serving, unitOfWork, client >>

PageNext == Paginates

\* the paginated queries of the repository, applied to bounded inputs
PageSpec == Init /\ [][PageNext]_vars

\* C26: for page >= 1, limit >= 1 and total >= 0 the result reports
\* totalPages = ceil(total / limit), hasNext = (page * limit < total) and
\* hasPrev = (page > 1), and its items are those at the 0-based offsets
\* (page-1)*limit .. page*limit-1 of the ordered filtered set.
C26_PaginationMetadataAndItems ==
  call.fn \in { "paginate", "searchPersonsPaginated" } =>
    LET p == call.result.pagination
        offsets == { o \in 0 .. (call.total - 1) :
                       (call.page - 1) * call.limit <= o /\ o <= call.page * call.limit - 1 }
    IN  /\ p.total = call.total
        /\ p.totalPages * call.limit >= call.total
        /\ p.totalPages >= 0
        /\ p.totalPages > 0 => (p.totalPages - 1) * call.limit < call.total
        /\ p.hasNext = (call.page * call.limit < call.total)
        /\ p.hasPrev = (call.page > 1)
        /\ Len(call.result.data) = Cardinality(offsets)
        /\ \A i \in 1 .. Len(call.result.data) :
             call.result.data[i] = OrderedRows(call.total)[(call.page - 1) * call.limit + i]

\* C26 (witness): the last page, partly filled: page 3 of size 4 of 9 rows
\* holds the ninth row alone, with a previous and no next page
C26_LastPagePartlyFilled ==
  /\ call.fn = "searchPersonsPaginated"
  /\ call.page = 3 /\ call.limit = 4 /\ call.total = 9
  /\ call.result.data = << 9 >>
  /\ call.result.pagination.totalPages = 3
  /\ ~call.result.pagination.hasNext /\ call.result.pagination.hasPrev

\* ------------------------------------------------------------------ payloads

\* PersonRepository.create: { ...personData, displayName: ... }
CreateValues(personData) ==
  [f \in DOMAIN personData \cup {"displayName"} |->
     IF f = "displayName"
       THEN ToUpperCase(personData.name \o << " " >> \o personData.surname)
       ELSE personData[f]]

\* the request body with an id field added by the client
WithId(body, id) == [f \in DOMAIN body \cup {"id"} |-> IF f = "id" THEN id ELSE body[f]]

\* ids the clients put into request bodies; 0 stands for a body without id
SentIds == { 0, 1, 2, 7 }

\* POST /api/persons or PUT /api/persons/:id with a valid body reaches the table:
\* key is the table's AUTO_INCREMENT counter for a create and the path parameter
\* for an update, storedId the id of the row after the write
StoresPayload ==
  /\ \E op \in { "create", "update" }, body \in { BodyAl, BodyAdmin }, sent \in SentIds,
        key \in Ids :
       LET payload == IF sent = 0 THEN body ELSE WithId(body, sent)
           values == ApplyBusinessTransformations(SanitizeInput(payload))
       IN  call' = [ fn |-> "store", op |-> op, payload |-> payload, key |-> key,
                     storedId |-> IF op = "create" THEN InsertedId(CreateValues(values), key)
                                  ELSE UpdatedId(values, key) ]
  /\ UNCHANGED << serving, unitOfWork, client >>

\* C14: the id of a stored row is the one the table generated: a create stores
\* the AUTO_INCREMENT value and an update leaves the row's id as it was,
\* whatever fields the request body holds.
C14_IdIsGeneratedAndImmutable ==
  call.fn = "store" => call.storedId = call.key

\* phone values the clients send
Phones ==
  { << "7" >>, << "(", "5", ")", " ", "1", "-", "2" >>, << "5", "\t", "1" >>,
    << "-", "-", "5" >>, << "(", " ", ")" >>, << "5", " ", " ", "1", "(", "(" >>,
    << " ", "5", "-" >>, << "+", "5", ".", "1" >> }

\* the characters the stored phone is to be free of
IsSeparator(c) == c \in { " ", "\t", "-", "(", ")" }

\* POST /api/persons or PUT /api/persons/:id with a valid body: the phone of the
\* row that Model.create / Model.update writes
StoresPhone ==
  /\ \E op \in { "create", "update" }, body \in { BodyAl, BodyAdmin }, phone \in Phones :
       LET payload == [body EXCEPT !.phone = phone]
           values == ApplyBusinessTransformations(SanitizeInput(payload))
       IN  /\ ValidateBusinessRules(SanitizeInput(payload)) = << >>
           /\ call' = [ fn |-> "storePhone", op |-> op, payload |-> payload,
                        stored |-> IF op = "create" THEN Row(1, CreateValues(values)).phone
                                   ELSE Row(1, values).phone ]
  /\ UNCHANGED << serving, unitOfWork, client >>

\* C21: every phone value written to the store by createPerson or updatePerson
\* contains no whitespace, hyphen or parenthesis character.
C21_StoredPhoneHasNoSeparator ==
  call.fn = "storePhone" => \A i \in 1 .. Len(call.stored) : ~IsSeparator(call.stored[i])

\* C21 (witness): an update whose phone holds a tab between digits has written
\* the digits alone
C21_TabRemovedOnUpdate ==
  /\ call.fn = "storePhone" /\ call.op = "update"
  /\ call.payload.phone = << "5", "\t", "1" >>
  /\ call.stored = << "5", "1" >>

\* C20: the record returned by a createPerson call that succeeds has a
\* displayName, the uppercase of trim(name), one space, trim(surname).
C20_ReturnedRecordHasDisplayName ==
  \A r \in Requests :
    (pc[r] = "done" /\ req[r].op = "create" /\ resp[r].status = 201) =>
      /\ "displayName" \in DOMAIN resp[r].data
      /\ resp[r].data.displayName =
           ToUpperCase(Trim(req[r].body.name) \o << " " >> \o Trim(req[r].body.surname))

\* name and surname are equal after trimming and lower-casing
SameNames(person) == ToLowerCase(Trim(person.name)) = ToLowerCase(Trim(person.surname))

\* request r is a create or an update whose body has equal name and surname
SendsSameNames(r) == req[r].op \in { "create", "update" } /\ SameNames(req[r].body)

\* the request was refused before its body was validated: the id parameter is
\* invalid, no record has the id, or the store failed the lookup
RefusedBeforeValidation(response) ==
  \/ response = InvalidId
  \/ response.kind = "NotFoundError"
  \/ FaultCaused(response)

CachedAbsent(id) ==
  /\ CacheLive(cache, FindByIdKey(id), now)
  /\ cache[FindByIdKey(id)].value = NULL

\* C23: once findById(id) has found no record and cached that result, a further
\* findById(id) within the TTL, the record still absent, does not query the store.
C23_CachedAbsentIsHonoured ==
  \A r \in Requests :
    pc[r] \in { "get_findByPk", "update_findByPk", "delete_findByPk" } =>
      ~(CachedAbsent(PathId(r)) /\ FindByPk(db, PathId(r)) = NULL)

\* C24: updatePerson runs the email uniqueness check exactly when the input
\* email differs from the email the store holds for that id at that time (the
\* store holding a record of that id): the comparison is never made against an
\* out-of-date copy of the record.
C24_UniquenessCheckedIffEmailDiffers ==
  [][\A r \in Requests :
       ( /\ req'[r].op = "update"
         /\ pc[r] \in { "idle", "update_findByPk" }
         /\ FindByPk(db, IdOf(req'[r])) # NULL ) =>
         LET held == FindByPk(db, IdOf(req'[r]))
             email == SanitizeInput(req'[r].body).email
         IN  /\ pc'[r] = "update_count" => email # held.email
             /\ pc'[r] \in { "update_update", "update_findByPk2" } => email = held.email]_vars

\* the body of the create that request r sends violates a business rule
InvalidCreate(rq) ==
  rq.op = "create" /\ ValidateBusinessRules(SanitizeInput(rq.body)) # << >>

\* C27: a createPerson call whose input fails business validation is answered
\* with the ValidationError in the step that receives it, with no store read or
\* write awaited and the table and the cache as they were; a create is at the
\* uniqueness check or at the insert only with input that passed validation.
C27_InvalidCreateTouchesNothing ==
  /\ [][\A r \in Requests :
          (pc[r] = "idle" /\ InvalidCreate(req'[r])) =>
            /\ pc'[r] = "done"
            /\ resp'[r].kind = "ValidationError"
            /\ db' = db /\ nextId' = nextId /\ cache' = cache]_vars
  /\ [](\A r \in Requests :
          pc[r] \in { "create_count", "create_insert" } => ~InvalidCreate(req[r]))

\* C27 (witness): an invalid create has been answered with the ValidationError
\* while the table holds a record and the cache an entry
C27_InvalidCreateRejected ==
  /\ pc[1] = "done" /\ InvalidCreate(req[1])
  /\ resp[1].kind = "ValidationError"
  /\ \E i \in DOMAIN db : db[i] # NULL
  /\ DOMAIN cache # { }

\* ------------------------------------------------------------------ round trip

\* request r has created a person and holds the 201 response
Created(r) == pc[r] = "done" /\ req[r].op = "create" /\ resp[r].status = 201

\* the person is read back by its id as soon as the create has answered
ReadsBack(r, c) == Created(c) /\ GetPersonById(r) /\ IdOf(req'[r]) = resp[c].data.id

\* any requests one after another, then a create, and the created person read
\* back by its id before anything else is sent
RoundTripNext ==
  \/ pc[2] = "idle" /\ Step(1)
  \/ Tick
  \/ ReadsBack(2, 1)
  \/ GetFindByPk(2)
  \/ Complete(2)

RoundTripSpec == Init /\ [][RoundTripNext]_vars

Txn(state, commits, rollbacks) == [state |-> state, commits |-> commits, rollbacks |-> rollbacks]

\* the catch without its rollback: the error is re-raised at once
CatchesWithoutRollback(c, error) ==
  /\ outcome' = [outcome EXCEPT ![c] = error]
  /\ upc' = [upc EXCEPT ![c] = "done"]
  /\ UNCHANGED target

\* the catch of executeInTransaction: rollback() up to transaction.rollback(),
\* or to the re-raise when the coordinator holds no transaction
Catches(c, error) ==
  /\ outcome' = [outcome EXCEPT ![c] = error]
  /\ IF transaction # 0
       THEN /\ upc' = [upc EXCEPT ![c] = "rollback"]
            /\ target' = [target EXCEPT ![c] = transaction]
       ELSE /\ upc' = [upc EXCEPT ![c] = "done"]
            /\ UNCHANGED target

\* getRepository(name, Class): the repository kept under the name, created and
\* given the coordinator's transaction (0 for null) when there is none yet
GetRepository(kept, current) == IF kept = << >> THEN << current >> ELSE kept

\* executeInTransaction(operation) is called: up to sequelize.transaction()
Executes(c) ==
  /\ upc[c] = "idle"
  /\ calls < MaxCalls
  /\ calls' = calls + 1
  /\ upc' = [upc EXCEPT ![c] = "begin"]
  /\ UNCHANGED << transaction, txns, own, target, outcome, settled, repositories, serving, call, client >>

\* this.transaction = await sequelize.transaction(), then operation(this) is
\* called and obtains its repository with work.getRepository('person', ...)
BeginTransaction(c) ==
  /\ upc[c] = "begin"
  /\ \E fault \in BOOLEAN :
       IF fault
         THEN /\ Catches(c, "beginError")
              /\ UNCHANGED << transaction, txns, own, repositories >>
         ELSE /\ txns' = Append(txns, Txn("active", 0, 0))
              /\ transaction' = Len(txns) + 1
              /\ own' = [own EXCEPT ![c] = Len(txns) + 1]
              /\ repositories' = GetRepository(repositories, Len(txns) + 1)
              /\ upc' = [upc EXCEPT ![c] = "work"]
              /\ UNCHANGED << target, outcome >>
  /\ UNCHANGED << settled, calls, serving, call, client >>

\* operation(this) settles; commit() up to transaction.commit(), or the catch
Operation(c) ==
  /\ upc[c] = "work"
  /\ \E throws \in BOOLEAN :
       /\ settled' = [settled EXCEPT ![c] = IF throws THEN "threw" ELSE "returned"]
       /\ IF throws THEN Catches(c, "operationError")
          ELSE IF transaction # 0
            THEN /\ upc' = [upc EXCEPT ![c] = "commit"]
                 /\ target' = [target EXCEPT ![c] = transaction]
                 /\ UNCHANGED outcome
            ELSE /\ upc' = [upc EXCEPT ![c] = "done"]
                 /\ outcome' = [outcome EXCEPT ![c] = "returned"]
                 /\ UNCHANGED target
  /\ UNCHANGED << transaction, txns, own, calls, repositories, serving, call, client >>

\* await this.transaction.commit(); this.transaction = null; return result.
\* A transaction that is already finished refuses the commit, and the store may
\* fail it: both throw into the catch.
Commit(c) ==
  /\ upc[c] = "commit"
  /\ LET t == target[c]
         received == [txns EXCEPT ![t].commits = @ + 1]
     IN  \E fault \in BOOLEAN :
           IF txns[t].state # "active"
             THEN /\ txns' = received
                  /\ Catches(c, "finishedError")
                  /\ UNCHANGED transaction
           ELSE IF fault
             THEN /\ txns' = received
                  /\ Catches(c, "commitError")
                  /\ UNCHANGED transaction
           ELSE /\ txns' = [received EXCEPT ![t].state = "committed"]
                /\ transaction' = 0
                /\ upc' = [upc EXCEPT ![c] = "done"]
                /\ outcome' = [outcome EXCEPT ![c] = "returned"]
                /\ UNCHANGED target
  /\ UNCHANGED << own, settled, calls, repositories, serving, call, client >>

\* await this.transaction.rollback(); this.transaction = null; throw error.
\* When the rollback itself throws, its error leaves the catch instead.
Rollback(c) ==
  /\ upc[c] = "rollback"
  /\ LET t == target[c]
         received == [txns EXCEPT ![t].rollbacks = @ + 1]
     IN  \E fault \in BOOLEAN :
           IF txns[t].state # "active"
             THEN /\ txns' = received
                  /\ outcome' = [outcome EXCEPT ![c] = "finishedError"]
                  /\ UNCHANGED transaction
           ELSE IF fault
             THEN /\ txns' = received
                  /\ outcome' = [outcome EXCEPT ![c] = "rollbackError"]
                  /\ UNCHANGED transaction
           ELSE /\ txns' = [received EXCEPT ![t].state = "rolledback"]
                /\ transaction' = 0
                /\ UNCHANGED outcome
  /\ upc' = [upc EXCEPT ![c] = "done"]
  /\ UNCHANGED << own, target, settled, calls, repositories, serving, call, client >>

\* the caller has the result or the error; it may call again
Settles(c) ==
  /\ upc[c] = "done"
  /\ upc' = [upc EXCEPT ![c] = "idle"]
  /\ own' = [own EXCEPT ![c] = 0]
  /\ target' = [target EXCEPT ![c] = 0]
  /\ outcome' = [outcome EXCEPT ![c] = ""]
  /\ settled' = [settled EXCEPT ![c] = ""]
  /\ UNCHANGED << transaction, txns, calls, repositories, serving, call, client >>

UowStep(c) ==
  \/ Executes(c)
  \/ BeginTransaction(c)
  \/ Operation(c)
  \/ Commit(c)
  \/ Rollback(c)
  \/ Settles(c)

UowNext == \E c \in Callers : UowStep(c)

\* executeInTransaction calls on one UnitOfWork instance, overlapping
UowSpec == Init /\ [][UowNext]_vars

UowSeqNext == UowStep(1)

\* one executeInTransaction call at a time; every awaited promise settles and
\* the event loop then runs the continuation
UowSeqSpec == Init /\ [][UowSeqNext]_vars /\ WF_vars(UowSeqNext)

\* transactions the store has begun
Begun == 1 .. Len(txns)

\* no begin, commit or rollback call on the store failed in call c
StoreObeyed(c) == outcome[c] \in {"returned", "operationError"}

\* call c has ended as executeInTransaction is described to end
EndsAsDescribed(c) ==
  LET t == txns[own[c]]
  IN  /\ settled[c] = "returned" =>
           t = Txn("committed", 1, 0) /\ outcome[c] = "returned"
      /\ settled[c] = "threw" =>
           t = Txn("rolledback", 0, 1) /\ outcome[c] = "operationError"
      /\ transaction = 0

Unfinished == {t \in Begun : txns[t].state = "active"}

\* C16: at most one started-and-unfinished transaction exists per UnitOfWork
\* instance at any time, also when two executeInTransaction calls overlap.
C16_AtMostOneUnfinishedTransaction == Cardinality(Unfinished) <= 1

\* C17: the message of a technical error raised below the service (here the
\* store's connection error) appears in no response body; the responses are
\* those written when NODE_ENV is not 'development' (no `error` field).
C17_NoTechnicalDetailInResponse ==
  \A r \in Requests :
    pc[r] = "done" => ~Includes(resp[r].message, ConnectionError.message)

\* ------------------------------------------------------------------ cache entries

\* CacheManager.defaultTTL
defaultTTL == 300000

\* times of Date.now() at a set and at a later get, in milliseconds
SetTimes == { 0, 1, 100000 }
Delays == { 0, 1, 299999, 300000, 300001, 400000 }

\* set(key, value, ttl) on an empty cache, then get(key) some time later
GetsCached ==
  /\ \E setAt \in SetTimes, ttl \in { defaultTTL, 1 }, delay \in Delays, id \in Ids :
       LET key == FindByIdKey(id)
           value == Row(id, ApplyBusinessTransformations(BodyAl))
           stored == CacheSet(<< >>, key, value, ttl, setAt)
       IN  call' = [ fn |-> "cacheGet", setAt |-> setAt, ttl |-> ttl, at |-> setAt + delay,
                     value |-> value,
                     result |-> CacheGet(stored, key, setAt + delay),
                     kept |-> key \in DOMAIN CacheAfterGet(stored, key, setAt + delay) ]
  /\ UNCHANGED << serving, unitOfWork, client >>

\* C25: a cache entry is returned by get only while the current time is at most
\* its set time plus its TTL; a get after that returns absent and removes it.
C25_EntryLivesForItsTtl ==
  call.fn = "cacheGet" =>
    IF call.at <= call.setAt + call.ttl
      THEN call.result = call.value /\ call.kept
      ELSE call.result = NULL /\ ~call.kept

\* C25 (witness): a get exactly the default TTL after the set has returned the
\* entry, which stays in the cache
C25_ReturnedAtTheTtl ==
  /\ call.fn = "cacheGet" /\ call.ttl = defaultTTL
  /\ call.at = call.setAt + defaultTTL /\ call.setAt > 0
  /\ call.result = call.value /\ call.kept

\* ------------------------------------------------------------------ validation

\* field values sent to createPerson / updatePerson
RuleNames == { << >>, << " " >>, << "B", "o" >> }
RuleSurnames == { << >>, << " " >>, << "b", "o", " " >>, << "A", "l" >> }
RuleEmails == { << >>, << "b", "@", "x" >>, << "a", "@", "x", ".", "c", "o" >>, TempDomain, << "b" >> \o TempDomain }
RulePhones == { << >>, << "5" >> }
RuleAddresses == { << >>, << "z" >> }

\* validateBusinessRules(data) throws, and handleBusinessError writes the 400 body
ValidatesBusinessRules ==
  /\ \E name \in RuleNames, surname \in RuleSurnames, email \in RuleEmails,
        phone \in RulePhones, address \in RuleAddresses :
       LET data == [name |-> name, surname |-> surname, email |-> email,
                    phone |-> phone, address |-> address]
           errors == ValidateBusinessRules(data)
       IN  /\ errors # << >>
           /\ call' = [ fn |-> "validateBusinessRules", data |-> data,
                        status |-> HandleBusinessError(ValidationFailure(errors)).status,
                        errors |-> ErrorsField(ValidationFailure(errors).message) ]
  /\ UNCHANGED << serving, unitOfWork, client >>

\* the rules of the service that the data violates, each by its message
ViolatedRules(data) ==
  { rule \in { "Name is required for business operations",
               "Surname is required for business operations",
               "Email is required for business operations",
               "Email must be in valid format",
               "Phone is required for business operations",
               "Address is required for business operations",
               "Name and surname cannot be identical",
               "Temporary email domains are not allowed" } :
      CASE rule = "Name is required for business operations" -> Trim(data.name) = << >>
        [] rule = "Surname is required for business operations" -> Trim(data.surname) = << >>
        [] rule = "Email is required for business operations" -> Trim(data.email) = << >>
        [] rule = "Email must be in valid format" ->
             Trim(data.email) # << >> /\ ~EmailRegexTest(data.email)
        [] rule = "Phone is required for business operations" -> Trim(data.phone) = << >>
        [] rule = "Address is required for business operations" -> Trim(data.address) = << >>
        [] rule = "Name and surname cannot be identical" ->
             /\ data.name # << >> /\ data.surname # << >>
             /\ ToLowerCase(Trim(data.name)) = ToLowerCase(Trim(data.surname))
        [] rule = "Temporary email domains are not allowed" -> Includes(data.email, TempDomain) }

\* C18: when the input violates several business rules at once, the errors list
\* of the 400 response holds one entry for every violated rule, and no other.
C18_ErrorsListEveryViolatedRule ==
  call.fn = "validateBusinessRules" =>
    /\ call.status = 400
    /\ Len(call.errors) = Cardinality(ViolatedRules(call.data))
    /\ \A rule \in ViolatedRules(call.data) :
         \E i \in 1 .. Len(call.errors) : call.errors[i] = << rule >>

\* C18 (witness): an input that violates four rules at once, all four listed
C18_FourRulesListed ==
  /\ call.fn = "validateBusinessRules"
  /\ Cardinality(ViolatedRules(call.data)) = 4
  /\ Len(call.errors) = 4

\* C28: within every executeInTransaction call, the repository obtained from
\* work.getRepository is bound to the transaction begun by that same call, on
\* the second and later calls on the same UnitOfWork instance too.
C28_RepositoryBoundToOwnTransaction ==
  \A c \in Callers : upc[c] = "work" => repositories = << own[c] >>

\* ------------------------------------------------------------------ client

\* api.execute(apiCall, { retries: 1 }) is entered: attempt 0 calls apiCall()
ApiExecute(k, o) ==
  /\ cop' = [cop EXCEPT ![k] = o]
  /\ cpc' = [cpc EXCEPT ![k] = "apiCall"]
  /\ UNCHANGED << attempt, answers, ended >>

\* usePersons.createPerson(personData), up to the await in api.execute
OptimisticCreate(k) ==
  /\ cpc[k] = "idle"
  /\ \E ms \in { 0, 1 } :
       LET tempId == clientNow + ms
       IN /\ clientNow' = tempId
          /\ persons' = << ListedPerson(tempId, PersonData(k), TRUE) >> \o persons
          /\ ApiExecute(k, [NoOp EXCEPT !.kind = "create", !.personData = PersonData(k),
                                        !.tempId = tempId])
  /\ UNCHANGED << serving, call, unitOfWork >>

\* usePersons.updatePerson(id, personData), up to the await in api.execute
OptimisticUpdate(k, id) ==
  /\ cpc[k] = "idle"
  /\ LET originalPerson == FindPerson(persons, id)
     IN IF originalPerson = NULL
          THEN /\ cpc' = [cpc EXCEPT ![k] = "done"]
               /\ ended' = [ended EXCEPT ![k] = "notFound"]
               /\ UNCHANGED << persons, cop, attempt, answers >>
          ELSE /\ persons' = MarkOptimistic(persons, id, PersonData(k))
               /\ ApiExecute(k, [NoOp EXCEPT !.kind = "update", !.id = id,
                                             !.personData = PersonData(k),
                                             !.kept = originalPerson])
  /\ UNCHANGED << clientNow, serving, call, unitOfWork >>

\* usePersons.deletePerson(id), up to the await in api.execute
OptimisticDelete(k, id) ==
  /\ cpc[k] = "idle"
  /\ LET personToDelete == FindPerson(persons, id)
     IN IF personToDelete = NULL
          THEN /\ cpc' = [cpc EXCEPT ![k] = "done"]
               /\ ended' = [ended EXCEPT ![k] = "returned"]
               /\ UNCHANGED << persons, cop, attempt, answers >>
          ELSE /\ persons' = Without(persons, id)
               /\ ApiExecute(k, [NoOp EXCEPT !.kind = "delete", !.id = id,
                                             !.kept = personToDelete])
  /\ UNCHANGED << clientNow, serving, call, unitOfWork >>

\* await apiCall() settles: on success execute returns and the hook confirms
\* the list; on failure execute breaks, retries after sleep(retryDelay), or
\* throws lastError and the hook rolls the list back
ApiCallSettles(k) ==
  /\ cpc[k] = "apiCall"
  /\ \E status \in { SuccessStatus(cop[k].kind) } \cup FailureStatuses(cop[k].kind) :
       /\ answers' = [answers EXCEPT ![k] = Append(@, status)]
       /\ IF status = SuccessStatus(cop[k].kind)
            THEN /\ persons' = Confirmed(persons, cop[k], k)
                 /\ cpc' = [cpc EXCEPT ![k] = "done"]
                 /\ ended' = [ended EXCEPT ![k] = "ok"]
            ELSE LET err == ServiceThrows(cop[k].kind, status)
                 IN IF BreaksLoop(err) \/ ~(attempt[k] < retries)
                      THEN /\ persons' = RolledBack(persons, cop[k])
                           /\ cpc' = [cpc EXCEPT ![k] = "done"]
                           /\ ended' = [ended EXCEPT ![k] = "failed"]
                      ELSE /\ cpc' = [cpc EXCEPT ![k] = "sleep"]
                           /\ UNCHANGED << persons, ended >>
  /\ UNCHANGED << cop, attempt, clientNow, serving, call, unitOfWork >>

\* await sleep(retryDelay) is over: attempt++ and apiCall() is called again
SleepIsOver(k) ==
  /\ cpc[k] = "sleep"
  /\ attempt' = [attempt EXCEPT ![k] = @ + 1]
  /\ cpc' = [cpc EXCEPT ![k] = "apiCall"]
  /\ UNCHANGED << persons, cop, answers, ended, clientNow, serving, call, unitOfWork >>

ClientNext ==
  \E k \in Ops :
    \/ OptimisticCreate(k)
    \/ \E id \in { 1, 2 } : OptimisticUpdate(k, id)
    \/ \E id \in { 1, 2 } : OptimisticDelete(k, id)
    \/ ApiCallSettles(k)
    \/ SleepIsOver(k)

ClientSpec == Init /\ [][ClientNext]_vars

\* the number of times operation k has called apiCall()
Issued(k) == IF cpc[k] = "idle" \/ cop[k].kind = "" THEN 0 ELSE attempt[k] + 1

\* C29: api.execute never re-issues a call the server answered with a 4xx
\* status: for create, update and delete alike a 4xx answer ends the attempt
\* loop, so it is the last answer and no call follows it.
C29_NoReissueAfter4xx ==
  \A k \in Ops : \A i \in DOMAIN answers[k] :
    (answers[k][i] >= 400 /\ answers[k][i] < 500) => Issued(k) = i

Records(list) == { list[i] : i \in DOMAIN list }

\* C30: when optimistic operations have failed and rolled back, the list holds
\* the records it held before them, with no optimistic placeholder left, also
\* when the operations overlapped.
C30_RollbackRestoresList ==
  (\A k \in Ops : cpc[k] \in { "idle", "done" } /\ ended[k] # "ok")
    => Records(persons) = Records(Loaded)

\* ------------------------------------------------------------------ function applications

FunNext ==
  \/ Dispatches
  \/ ValidatesId
  \/ SearchesPersons
  \/ StoresPayload
  \/ ValidatesBusinessRules
  \/ StoresPhone
  \/ GetsCached

\* one function of the program at a time, applied to inputs of bounded sets
FunSpec == Init /\ [][FunNext]_vars

====
